---- MODULE Spec2Model ----
(***************************************************************************)
(* Undo/redo command history of the Cockatrice deck editor:                *)
(* CommandManager (command_manager.cpp), the DeckCommand interface         *)
(* (deck_command.h) and AddCardCommand / RemoveCardCommand /               *)
(* SwapCardCommand (concrete_deck_commands.h), acting on a DeckListModel.  *)
(***************************************************************************)
EXTENDS Integers, Sequences, FiniteSets, TLC

VARIABLES
    deck,            \* the DeckListModel instances: document -> zone -> rows
    initDeck,        \* history: the documents as they were at construction
    undoStack,       \* CommandManager::m_undoStack (top = last element)
    redoStack,       \* CommandManager::m_redoStack (top = last element)
    maxHistorySize,  \* CommandManager::m_maxHistorySize
    mergingEnabled,  \* CommandManager::m_mergingEnabled
    cleanupPending,  \* m_cleanupTimer is active (single shot, started)
    cleanupDue,      \* the time m_cleanupTimer fires at when active, else 0
    clock,           \* QDateTime::currentMSecsSinceEpoch()
    nextId,          \* history: identity of the next command object
    ret,             \* history: the last manager call, its result and branch
    emitted          \* history: the signals emitted by the last manager call

vars == <<deck, initDeck, undoStack, redoStack, maxHistorySize, mergingEnabled,
          cleanupPending, cleanupDue, clock, nextId, ret, emitted>>

(***************************************************************************)
(* Bounds of the model                                                     *)
(***************************************************************************)
\* commands executeCommand accepts (pushes or merges) in one behaviour of Spec
MaxCmds == 2
\* largest count a command is constructed with
MaxCount == 2
\* the clock stops here
MaxClock == 5000
\* largest bound given to setMaxHistorySize
MaxHistory == 1

(***************************************************************************)
(* Program constants                                                       *)
(***************************************************************************)
MergeWindow == 5000
DefaultMaxHistorySize == 100
CleanupInterval == 100

Zones == {"main", "side", "tokens"}
Docs == {1, 2}
NullDeck == 0

\* a zone name no Document holds
NoSuchZone == "exile"

CardX == [name |-> "X", printing |-> "p1"]
CardX2 == [name |-> "X", printing |-> "p2"]
CardY == [name |-> "Y", printing |-> "p1"]
InvalidCard == [name |-> "", printing |-> ""]

Min(S) == CHOOSE x \in S : \A y \in S : x <= y

abs(x) == IF x < 0 THEN -x ELSE x

RemoveAt(s, i) == SubSeq(s, 1, i - 1) \o SubSeq(s, i + 1, Len(s))

(***************************************************************************)
(* DeckCommand::isValidCard                                                *)
(***************************************************************************)
isValidCard(card) == card.name # ""

(***************************************************************************)
(* The Document (DeckListModel) contract.  m is one document: zone -> rows,*)
(* a row being [name, printing, number].  An index is a position in a zone.*)
(***************************************************************************)
NoIndex == [zone |-> "", row |-> 0]

indexIsValid(index) == index.row > 0

rowExists(m, index) ==
    /\ index.zone \in Zones
    /\ index.row \in 1..Len(m[index.zone])

findCard(m, name, zone, printing) ==
    LET hits == {i \in 1..Len(m[zone]) :
                    m[zone][i].name = name /\ m[zone][i].printing = printing}
    IN IF hits = {} THEN NoIndex ELSE [zone |-> zone, row |-> Min(hits)]

findCardAnyPrinting(m, name, zone) ==
    LET hits == {i \in 1..Len(m[zone]) : m[zone][i].name = name}
    IN IF hits = {} THEN NoIndex ELSE [zone |-> zone, row |-> Min(hits)]

\* a Document that does not hold the zone refuses the card: no valid index
addCardIndex(m, card, zone) ==
    IF zone \notin DOMAIN m THEN NoIndex
    ELSE LET found == findCard(m, card.name, zone, card.printing)
         IN IF indexIsValid(found) THEN found
            ELSE [zone |-> zone, row |-> Len(m[zone]) + 1]

addCard(m, card, zone) ==
    IF zone \notin DOMAIN m THEN m
    ELSE LET found == findCard(m, card.name, zone, card.printing)
         IN IF indexIsValid(found)
            THEN [m EXCEPT ![zone][found.row].number = @ + 1]
            ELSE [m EXCEPT ![zone] = Append(@, [name |-> card.name,
                                                 printing |-> card.printing,
                                                 number |-> 1])]

data(m, index) == IF rowExists(m, index) THEN m[index.zone][index.row].number ELSE 0

setData(m, index, n) ==
    IF rowExists(m, index) THEN [m EXCEPT ![index.zone][index.row].number = n] ELSE m

removeRow(m, index) ==
    IF rowExists(m, index) THEN [m EXCEPT ![index.zone] = RemoveAt(@, index.row)] ELSE m

\* how many copies of a card name a zone of document m holds, all printings
RECURSIVE copiesFrom(_, _, _)
copiesFrom(rows, name, i) ==
    IF i > Len(rows) THEN 0
    ELSE (IF rows[i].name = name THEN rows[i].number ELSE 0)
            + copiesFrom(rows, name, i + 1)

copies(m, zone, name) == copiesFrom(m[zone], name, 1)

\* take one copy away at index: decrement, or remove the row when it held one
takeOne(m, index) ==
    IF data(m, index) > 1 THEN setData(m, index, data(m, index) - 1)
    ELSE removeRow(m, index)

(***************************************************************************)
(* Commands.  A command object is a record; recs is m_addedIndexes,        *)
(* m_removedCards or m_movedCards, actually is m_actuallyRemoved or        *)
(* m_actuallyMoved.  id (object identity) and absorbed (how many commands  *)
(* mergeWith has taken in) are history fields no code reads.               *)
(***************************************************************************)
NullCommand == [kind |-> "null"]

NewCommand(kind, d, card, zone, toZone, count, ts) ==
    [id |-> 0, kind |-> kind, deck |-> d, card |-> card, zone |-> zone,
     toZone |-> toZone, count |-> count, ts |-> ts, executed |-> FALSE,
     actually |-> 0, recs |-> <<>>, absorbed |-> 0]

Rec(index, toIndex, removed) ==
    [index |-> index, toIndex |-> toIndex, removed |-> removed]

\* ---- AddCardCommand ----
RECURSIVE AddLoop(_, _, _)
AddLoop(i, c, m) ==
    IF i >= c.count THEN [cmd |-> c, m |-> m]
    ELSE AddLoop(i + 1,
                 [c EXCEPT !.recs = Append(@, Rec(addCardIndex(m, c.card, c.zone),
                                                 NoIndex, FALSE))],
                 addCard(m, c.card, c.zone))

AddCardExecute(c, m) ==
    IF c.deck = NullDeck \/ ~isValidCard(c.card) \/ c.count <= 0
    THEN [ok |-> FALSE, cmd |-> c, m |-> m]
    ELSE LET r == AddLoop(0, c, m)
         IN [ok |-> TRUE, cmd |-> [r.cmd EXCEPT !.executed = TRUE], m |-> r.m]

RECURSIVE AddUndoLoop(_, _, _)
AddUndoLoop(i, recs, m) ==
    IF i > Len(recs) THEN m
    ELSE AddUndoLoop(i + 1, recs,
                     IF indexIsValid(recs[i].index) THEN takeOne(m, recs[i].index)
                     ELSE m)

AddCardUndo(c, m) ==
    IF ~c.executed \/ c.deck = NullDeck \/ ~isValidCard(c.card)
    THEN [ok |-> FALSE, cmd |-> c, m |-> m]
    ELSE [ok |-> TRUE,
          cmd |-> [c EXCEPT !.recs = <<>>, !.executed = FALSE],
          m |-> AddUndoLoop(1, c.recs, m)]

\* ---- RemoveCardCommand ----
\* mutant: the first entry of the name is taken, whatever its printing
lookup_anyPrinting(m, card, zone) == findCardAnyPrinting(m, card.name, zone)

\* exact printing first, then any printing of the name in the zone
lookup(m, card, zone) ==
    LET exact == findCard(m, card.name, zone, card.printing)
    IN IF indexIsValid(exact) THEN exact ELSE findCardAnyPrinting(m, card.name, zone)

RECURSIVE RemoveLoop(_, _, _)
RemoveLoop(i, c, m) ==
    IF i >= c.count THEN [cmd |-> c, m |-> m]
    ELSE LET index == lookup(m, c.card, c.zone)
         IN IF indexIsValid(index)
            THEN RemoveLoop(i + 1,
                            [c EXCEPT !.recs = Append(@, Rec(index, NoIndex,
                                                            ~(data(m, index) > 1))),
                                      !.actually = @ + 1],
                            takeOne(m, index))
            ELSE [cmd |-> c, m |-> m]

\* mutant: success only when every requested copy was removed
RemoveCardExecute_allOrNothing(c, m) ==
    IF c.deck = NullDeck \/ ~isValidCard(c.card) \/ c.count <= 0
    THEN [ok |-> FALSE, cmd |-> c, m |-> m]
    ELSE LET r == RemoveLoop(0, [c EXCEPT !.actually = 0, !.recs = <<>>], m)
         IN [ok |-> r.cmd.actually >= c.count,
             cmd |-> [r.cmd EXCEPT !.executed = TRUE],
             m |-> r.m]

RemoveCardExecute(c, m) ==
    IF c.deck = NullDeck \/ ~isValidCard(c.card) \/ c.count <= 0
    THEN [ok |-> FALSE, cmd |-> c, m |-> m]
    ELSE LET r == RemoveLoop(0, [c EXCEPT !.actually = 0, !.recs = <<>>], m)
         IN [ok |-> r.cmd.actually > 0,
             cmd |-> [r.cmd EXCEPT !.executed = TRUE],
             m |-> r.m]

\* give one copy back by name: increment the row found, nothing when none
incrementByName(m, card, zone) ==
    LET index == findCardAnyPrinting(m, card.name, zone)
    IN IF indexIsValid(index) THEN setData(m, index, data(m, index) + 1) ELSE m

RECURSIVE RemoveUndoLoop(_, _, _)
RemoveUndoLoop(i, c, m) ==
    IF i < 1 THEN m
    ELSE RemoveUndoLoop(i - 1, c,
                        IF c.recs[i].removed THEN addCard(m, c.card, c.zone)
                        ELSE incrementByName(m, c.card, c.zone))

RECURSIVE addCopies(_, _, _, _)
addCopies(m, card, zone, k) ==
    IF k <= 0 THEN m ELSE addCopies(addCard(m, card, zone), card, zone, k - 1)

\* mutant: undo fails when a decremented entry is no longer in the zone
RemoveCardUndo_strict(c, m) ==
    IF ~c.executed \/ c.deck = NullDeck \/ ~isValidCard(c.card)
    THEN [ok |-> FALSE, cmd |-> c, m |-> m]
    ELSE IF /\ \E i \in 1..Len(c.recs) : ~c.recs[i].removed
            /\ ~indexIsValid(findCardAnyPrinting(m, c.card.name, c.zone))
    THEN [ok |-> FALSE, cmd |-> c, m |-> m]
    ELSE [ok |-> TRUE,
          cmd |-> [c EXCEPT !.recs = <<>>, !.executed = FALSE],
          m |-> RemoveUndoLoop(Len(c.recs), c, m)]

\* mutant: undo gives back the requested count, not the copies removed
RemoveCardUndo_requested(c, m) ==
    IF ~c.executed \/ c.deck = NullDeck \/ ~isValidCard(c.card)
    THEN [ok |-> FALSE, cmd |-> c, m |-> m]
    ELSE [ok |-> TRUE,
          cmd |-> [c EXCEPT !.recs = <<>>, !.executed = FALSE],
          m |-> addCopies(m, c.card, c.zone, c.count)]

RemoveCardUndo(c, m) ==
    IF ~c.executed \/ c.deck = NullDeck \/ ~isValidCard(c.card)
    THEN [ok |-> FALSE, cmd |-> c, m |-> m]
    ELSE [ok |-> TRUE,
          cmd |-> [c EXCEPT !.recs = <<>>, !.executed = FALSE],
          m |-> RemoveUndoLoop(Len(c.recs), c, m)]

\* ---- SwapCardCommand ----
RECURSIVE SwapLoop(_, _, _)
SwapLoop(i, c, m) ==
    IF i >= c.count THEN [cmd |-> c, m |-> m]
    ELSE LET fromIndex == lookup(m, c.card, c.zone)
         IN IF indexIsValid(fromIndex)
            THEN LET m1 == takeOne(m, fromIndex)
                 IN SwapLoop(i + 1,
                             [c EXCEPT !.recs = Append(@, Rec(fromIndex,
                                                 addCardIndex(m1, c.card, c.toZone),
                                                 ~(data(m, fromIndex) > 1))),
                                       !.actually = @ + 1],
                             addCard(m1, c.card, c.toZone))
            ELSE [cmd |-> c, m |-> m]

SwapCardExecute(c, m) ==
    IF c.deck = NullDeck \/ ~isValidCard(c.card) \/ c.count <= 0
    THEN [ok |-> FALSE, cmd |-> c, m |-> m]
    ELSE IF c.zone = c.toZone
    THEN [ok |-> FALSE, cmd |-> c, m |-> m]
    ELSE LET r == SwapLoop(0, [c EXCEPT !.actually = 0, !.recs = <<>>], m)
         IN [ok |-> r.cmd.actually > 0,
             cmd |-> [r.cmd EXCEPT !.executed = TRUE],
             m |-> r.m]

RECURSIVE SwapUndoLoop(_, _, _)
SwapUndoLoop(i, c, m) ==
    IF i < 1 THEN m
    ELSE LET toIndex == findCardAnyPrinting(m, c.card.name, c.toZone)
             m1 == IF indexIsValid(toIndex) THEN takeOne(m, toIndex) ELSE m
         IN SwapUndoLoop(i - 1, c,
                         IF c.recs[i].removed THEN addCard(m1, c.card, c.zone)
                         ELSE incrementByName(m1, c.card, c.zone))

\* mutant: undo gives the copies back to the source and leaves the destination
SwapCardUndo_sourceOnly(c, m) ==
    IF ~c.executed \/ c.deck = NullDeck \/ ~isValidCard(c.card)
    THEN [ok |-> FALSE, cmd |-> c, m |-> m]
    ELSE [ok |-> TRUE,
          cmd |-> [c EXCEPT !.recs = <<>>, !.executed = FALSE],
          m |-> addCopies(m, c.card, c.zone, Len(c.recs))]

SwapCardUndo(c, m) ==
    IF ~c.executed \/ c.deck = NullDeck \/ ~isValidCard(c.card)
    THEN [ok |-> FALSE, cmd |-> c, m |-> m]
    ELSE [ok |-> TRUE,
          cmd |-> [c EXCEPT !.recs = <<>>, !.executed = FALSE],
          m |-> SwapUndoLoop(Len(c.recs), c, m)]

\* ---- a DeckCommand that keeps the base class's defaults (deck_command.h):
\* execute and undo are pure virtual, their outcome is the caller's input ok
OtherExecute(c, m, ok) ==
    [ok |-> ok, cmd |-> IF ok THEN [c EXCEPT !.executed = TRUE] ELSE c, m |-> m]

OtherUndo(c, m, ok) ==
    [ok |-> ok, cmd |-> IF ok THEN [c EXCEPT !.executed = FALSE] ELSE c, m |-> m]

\* ---- virtual dispatch ----
execute(c, m, ok) ==
    CASE c.kind = "AddCard" -> AddCardExecute(c, m)
      [] c.kind = "RemoveCard" -> RemoveCardExecute(c, m)
      [] c.kind = "SwapCard" -> SwapCardExecute(c, m)
      [] OTHER -> OtherExecute(c, m, ok)

undoCommand(c, m, ok) ==
    CASE c.kind = "AddCard" -> AddCardUndo(c, m)
      [] c.kind = "RemoveCard" -> RemoveCardUndo(c, m)
      [] c.kind = "SwapCard" -> SwapCardUndo(c, m)
      [] OTHER -> OtherUndo(c, m, ok)

\* mutant: isModifying without the card validity test
isModifying_countOnly(c) ==
    CASE c.kind \in {"AddCard", "RemoveCard"} -> c.count > 0
      [] c.kind = "SwapCard" -> c.count > 0 /\ c.zone # c.toZone
      [] OTHER -> TRUE

\* mutant: SwapCardCommand::isModifying without the zone comparison
isModifying_sameZones(c) ==
    CASE c.kind \in {"AddCard", "RemoveCard", "SwapCard"} ->
            c.count > 0 /\ isValidCard(c.card)
      [] OTHER -> TRUE

isModifying(c) ==
    CASE c.kind \in {"AddCard", "RemoveCard"} -> c.count > 0 /\ isValidCard(c.card)
      [] c.kind = "SwapCard" -> c.count > 0 /\ isValidCard(c.card) /\ c.zone # c.toZone
      [] OTHER -> TRUE

\* mutant: a difference of exactly 5000 ms still merges
withinWindow_inclusive(a, b) == abs(a.ts - b.ts) <= MergeWindow

withinWindow(a, b) == abs(a.ts - b.ts) < MergeWindow

canMergeWith(top, other) ==
    CASE top.kind \in {"AddCard", "RemoveCard"} ->
            /\ other.kind = top.kind
            /\ top.deck = other.deck
            /\ top.card.name = other.card.name
            /\ top.zone = other.zone
            /\ withinWindow(top, other)
      [] top.kind = "SwapCard" ->
            /\ other.kind = top.kind
            /\ top.deck = other.deck
            /\ top.card.name = other.card.name
            /\ top.zone = other.zone
            /\ top.toZone = other.toZone
            /\ withinWindow(top, other)
      [] OTHER -> FALSE

\* mutant: the entry takes the creation time of the command it absorbs
mergeWith_restamped(top, other) ==
    [top EXCEPT !.count = @ + other.count, !.absorbed = @ + 1, !.ts = other.ts]

\* the command after mergeWith(other) returned true
mergeWith(top, other) ==
    [top EXCEPT !.count = @ + other.count, !.absorbed = @ + 1]

getZoneDisplayName(zone) ==
    CASE zone = "main" -> "main deck"
      [] zone = "side" -> "sideboard"
      [] zone = "tokens" -> "tokens"
      [] OTHER -> zone

getDescription(c) ==
    CASE c.kind = "AddCard" ->
            IF c.count = 1
            THEN <<"Add", c.card.name, "to", getZoneDisplayName(c.zone)>>
            ELSE <<"Add", c.count, "x", c.card.name, "to", getZoneDisplayName(c.zone)>>
      [] c.kind = "RemoveCard" ->
            IF c.count = 1
            THEN <<"Remove", c.card.name, "from", getZoneDisplayName(c.zone)>>
            ELSE <<"Remove", c.count, "x", c.card.name, "from",
                   getZoneDisplayName(c.zone)>>
      [] c.kind = "SwapCard" ->
            IF c.count = 1
            THEN <<"Move", c.card.name, "from", getZoneDisplayName(c.zone), "to",
                   getZoneDisplayName(c.toZone)>>
            ELSE <<"Move", c.count, "x", c.card.name, "from",
                   getZoneDisplayName(c.zone), "to", getZoneDisplayName(c.toZone)>>
      [] OTHER -> <<"Other">>

(***************************************************************************)
(* CommandManager                                                          *)
(***************************************************************************)
Top(stack) == stack[Len(stack)]

\* mutant: the top command is copied, not moved out of the stack
Pop_copied(stack) == stack

Pop(stack) == SubSeq(stack, 1, Len(stack) - 1)

canUndoOf(u) == u # <<>>

\* mutant: redo is offered only from the second undone command on
canRedoOf_atLeastTwo(r) == Len(r) >= 2

canRedoOf(r) == r # <<>>

canUndo == canUndoOf(undoStack)

canRedo == canRedoOf(redoStack)

undoDescriptionOf(u) == IF canUndoOf(u) THEN <<"Undo">> \o getDescription(Top(u)) ELSE <<>>

redoDescriptionOf(r) == IF canRedoOf(r) THEN <<"Redo">> \o getDescription(Top(r)) ELSE <<>>

\* mutant: updateState() reports the stacks as the call found them
updateState_early(u, r) ==
    << [sig |-> "undoRedoStateChanged",
        args |-> <<canUndoOf(undoStack), canRedoOf(redoStack)>>],
       [sig |-> "descriptionsChanged",
        args |-> <<undoDescriptionOf(undoStack), redoDescriptionOf(redoStack)>>] >>

\* the two signals updateState() emits, for the stacks u and r
updateState(u, r) ==
    << [sig |-> "undoRedoStateChanged", args |-> <<canUndoOf(u), canRedoOf(r)>>],
       [sig |-> "descriptionsChanged",
        args |-> <<undoDescriptionOf(u), redoDescriptionOf(r)>>] >>

\* mutant: the merge scans the whole stack for an entry that can absorb
tryMergeCommand_deep(u, command) ==
    LET hits == {i \in 1..Len(u) : canMergeWith(u[i], command)}
    IN IF hits = {} THEN [merged |-> FALSE, stack |-> u]
       ELSE [merged |-> TRUE,
             stack |-> [u EXCEPT ![Min(hits)] = mergeWith(u[Min(hits)], command)]]

\* the undo stack after tryMergeCommand(command), and whether it merged
tryMergeCommand(u, command) ==
    IF u = <<>> THEN [merged |-> FALSE, stack |-> u]
    ELSE IF ~canMergeWith(Top(u), command) THEN [merged |-> FALSE, stack |-> u]
    ELSE [merged |-> TRUE,
          stack |-> [u EXCEPT ![Len(u)] = mergeWith(Top(u), command)]]

\* mutant: the newest commands are discarded instead of the oldest
removeOldCommands_fromTop(u, count) == SubSeq(u, 1, Len(u) - count)

\* mutant: the kept commands come back from the temporary stack upside down
removeOldCommands_reversed(u, count) ==
    LET keepCount == Len(u) - count
    IN [i \in 1..keepCount |-> u[Len(u) + 1 - i]]

\* the undo stack after removeOldCommands(count)
removeOldCommands(u, count) ==
    LET keepCount == Len(u) - count
    IN SubSeq(u, Len(u) - keepCount + 1, Len(u))

\* mutant: a bound of 0 counts as a bound
overLimit_anyBound(max, u) == Len(u) > max

overLimit(max, u) == max > 0 /\ Len(u) > max

\* m_cleanupTimer->start() when over the limit: the timer is (still) active
scheduleCleanup(pending, max, u) == pending \/ overLimit(max, u)

\* m_cleanupTimer->start() when over the limit: QTimer::start() on an active
\* timer stops and restarts it, so the deadline is a full interval from now
timerDue(due, max, u) ==
    IF overLimit(max, u) THEN clock + CleanupInterval ELSE due

\* mutant: the redo stack is left as it was
redoAfterExecute_kept(r) == r

\* m_redoStack.clear() after a successful execute()
redoAfterExecute(r) == <<>>

\* mutant: the push trims the stack to the bound at once
pushCommand_trimmed(u, command) ==
    LET pushed == Append(u, command)
    IN IF overLimit(maxHistorySize, pushed)
       THEN removeOldCommands(pushed, Len(pushed) - maxHistorySize)
       ELSE pushed

\* m_undoStack.push(std::move(command)) in executeCommand
pushCommand(u, command) == Append(u, command)

\* mutant: the popped command is lost
pushBack_dropped(stack, command) == stack

\* a popped command whose undo() or execute() failed goes back on its stack
pushBack(stack, command) == Append(stack, command)

\* history: the Document and the stacks as a successful undo() found them
NoSnapshot == [taken |-> FALSE]

Snapshot == [taken |-> TRUE, deck |-> deck, undoStack |-> undoStack,
             redoStack |-> redoStack]

\* what a call returned, the branch it took, whether redo was possible before,
\* and (for a command executeCommand executed) the command it was given
ReturnedFor(op, result, branch, command) ==
    [op |-> op, result |-> result, branch |-> branch, hadRedo |-> canRedo,
     arg |-> command, before |-> NoSnapshot]

Returned(op, result, branch) == ReturnedFor(op, result, branch, NullCommand)

ExecuteCommand(command, ok) ==
    /\ UNCHANGED <<initDeck, maxHistorySize, mergingEnabled, clock>>
    /\ IF command = NullCommand
       THEN /\ ret' = Returned("executeCommand", FALSE, "null")
            /\ emitted' = <<>>
            /\ UNCHANGED <<deck, undoStack, redoStack, cleanupPending, cleanupDue, nextId>>
       ELSE IF ~isModifying(command)
       THEN /\ ret' = Returned("executeCommand", TRUE, "skip")
            /\ emitted' = <<>>
            /\ UNCHANGED <<deck, undoStack, redoStack, cleanupPending, cleanupDue, nextId>>
       ELSE \E r \in {execute([command EXCEPT !.id = nextId],
                             IF command.deck \in Docs THEN deck[command.deck] ELSE <<>>,
                             ok)} :
            LET d == command.deck
                deckAfter == IF d \in Docs THEN [deck EXCEPT ![d] = r.m] ELSE deck
            IN IF ~r.ok
               THEN /\ ret' = Returned("executeCommand", FALSE, "fail")
                    /\ emitted' = <<>>
                    /\ deck' = deckAfter
                    /\ UNCHANGED <<undoStack, redoStack, cleanupPending, cleanupDue, nextId>>
               ELSE \E t \in {IF mergingEnabled THEN tryMergeCommand(undoStack, r.cmd)
                               ELSE [merged |-> FALSE, stack |-> undoStack]} :
                    \E u \in {IF t.merged THEN t.stack ELSE pushCommand(undoStack, r.cmd)} :
                       /\ deck' = deckAfter
                       /\ redoStack' = redoAfterExecute(redoStack)
                       /\ undoStack' = u
                       /\ cleanupPending' = scheduleCleanup(cleanupPending, maxHistorySize, u)
                       /\ cleanupDue' = timerDue(cleanupDue, maxHistorySize, u)
                       /\ nextId' = nextId + 1
                       /\ emitted' = updateState(u, redoAfterExecute(redoStack)) \o
                              << [sig |-> "commandExecuted",
                                  args |-> << IF u = <<>> THEN <<>>
                                              ELSE getDescription(Top(u)) >>] >>
                       /\ ret' = ReturnedFor("executeCommand", TRUE,
                                             IF t.merged THEN "merge" ELSE "push",
                                             command)

Undo(ok) ==
    /\ UNCHANGED <<initDeck, maxHistorySize, mergingEnabled, clock, cleanupPending, cleanupDue, nextId>>
    /\ IF ~canUndo
       THEN /\ ret' = Returned("undo", FALSE, "empty")
            /\ emitted' = <<>>
            /\ UNCHANGED <<deck, undoStack, redoStack>>
       ELSE \E r \in {undoCommand(Top(undoStack),
                                 IF Top(undoStack).deck \in Docs
                                 THEN deck[Top(undoStack).deck] ELSE <<>>,
                                 ok)} :
            LET d == Top(undoStack).deck
            IN /\ deck' = IF d \in Docs THEN [deck EXCEPT ![d] = r.m] ELSE deck
               /\ IF ~r.ok
                  THEN /\ undoStack' = pushBack(Pop(undoStack), r.cmd)
                       /\ redoStack' = redoStack
                       /\ emitted' = <<>>
                       /\ ret' = Returned("undo", FALSE, "fail")
                  ELSE /\ undoStack' = Pop(undoStack)
                       /\ redoStack' = Append(redoStack, r.cmd)
                       /\ emitted' = updateState(Pop(undoStack), Append(redoStack, r.cmd))
                              \o << [sig |-> "commandUndone",
                                     args |-> <<getDescription(r.cmd)>>] >>
                       /\ ret' = [Returned("undo", TRUE, "done") EXCEPT !.before = Snapshot]

Redo(ok) ==
    /\ UNCHANGED <<initDeck, maxHistorySize, mergingEnabled, clock, cleanupPending, cleanupDue, nextId>>
    /\ IF ~canRedo
       THEN /\ ret' = Returned("redo", FALSE, "empty")
            /\ emitted' = <<>>
            /\ UNCHANGED <<deck, undoStack, redoStack>>
       ELSE \E r \in {execute(Top(redoStack),
                             IF Top(redoStack).deck \in Docs
                             THEN deck[Top(redoStack).deck] ELSE <<>>,
                             ok)} :
            LET d == Top(redoStack).deck
            IN /\ deck' = IF d \in Docs THEN [deck EXCEPT ![d] = r.m] ELSE deck
               /\ IF ~r.ok
                  THEN /\ redoStack' = pushBack(Pop(redoStack), r.cmd)
                       /\ undoStack' = undoStack
                       /\ emitted' = <<>>
                       /\ ret' = Returned("redo", FALSE, "fail")
                  ELSE /\ redoStack' = Pop(redoStack)
                       /\ undoStack' = Append(undoStack, r.cmd)
                       /\ emitted' = updateState(Append(undoStack, r.cmd), Pop(redoStack))
                              \o << [sig |-> "commandRedone",
                                     args |-> <<getDescription(r.cmd)>>] >>
                       /\ ret' = Returned("redo", TRUE, "done")

\* mutant: only the undo stack is discarded
ClearHistory_undoOnly ==
    /\ undoStack' = <<>>
    /\ redoStack' = redoStack
    /\ emitted' = updateState(<<>>, redoStack) \o << [sig |-> "historyCleared", args |-> <<>>] >>
    /\ ret' = Returned("clearHistory", TRUE, "done")
    /\ UNCHANGED <<deck, initDeck, maxHistorySize, mergingEnabled, clock,
                   cleanupPending, cleanupDue, nextId>>

ClearHistory ==
    /\ undoStack' = <<>>
    /\ redoStack' = <<>>
    /\ emitted' = updateState(<<>>, <<>>) \o << [sig |-> "historyCleared", args |-> <<>>] >>
    /\ ret' = Returned("clearHistory", TRUE, "done")
    /\ UNCHANGED <<deck, initDeck, maxHistorySize, mergingEnabled, clock,
                   cleanupPending, cleanupDue, nextId>>

SetMaxHistorySize(maxSize) ==
    /\ maxHistorySize' = maxSize
    /\ cleanupPending' = scheduleCleanup(cleanupPending, maxSize, undoStack)
    /\ cleanupDue' = timerDue(cleanupDue, maxSize, undoStack)
    /\ emitted' = <<>>
    /\ ret' = Returned("setMaxHistorySize", TRUE, "done")
    /\ UNCHANGED <<deck, initDeck, undoStack, redoStack, mergingEnabled, clock, nextId>>

SetMergingEnabled(enabled) ==
    /\ mergingEnabled' = enabled
    /\ emitted' = <<>>
    /\ ret' = Returned("setMergingEnabled", TRUE, "done")
    /\ UNCHANGED <<deck, initDeck, undoStack, redoStack, maxHistorySize, clock,
                   cleanupPending, cleanupDue, nextId>>

\* mutant: the cleanup drops the oldest command without looking at the bound
CleanupHistory_unchecked ==
    /\ cleanupPending
    /\ cleanupPending' = FALSE
    /\ cleanupDue' = 0
    /\ emitted' = <<>>
    /\ IF undoStack = <<>>
       THEN /\ undoStack' = undoStack
            /\ ret' = Returned("cleanupHistory", TRUE, "none")
       ELSE /\ undoStack' = Tail(undoStack)
            /\ ret' = Returned("cleanupHistory", TRUE, "trim")
    /\ UNCHANGED <<deck, initDeck, redoStack, maxHistorySize, mergingEnabled, clock, nextId>>

\* the timeout of m_cleanupTimer: the slot cleanupHistory() runs
CleanupHistory ==
    /\ cleanupPending
    /\ cleanupPending' = FALSE
    /\ cleanupDue' = 0
    /\ emitted' = <<>>
    /\ IF maxHistorySize <= 0 \/ Len(undoStack) <= maxHistorySize
       THEN /\ undoStack' = undoStack
            /\ ret' = Returned("cleanupHistory", TRUE, "none")
       ELSE /\ undoStack' = removeOldCommands(undoStack, Len(undoStack) - maxHistorySize)
            /\ ret' = Returned("cleanupHistory", TRUE, "trim")
    /\ UNCHANGED <<deck, initDeck, redoStack, maxHistorySize, mergingEnabled, clock, nextId>>

\* time passes between two calls
Deltas == {MergeWindow - 1, MergeWindow}

Tick(delta) ==
    /\ clock + delta <= MaxClock
    /\ clock' = clock + delta
    /\ UNCHANGED <<deck, initDeck, undoStack, redoStack, maxHistorySize, mergingEnabled,
                   cleanupPending, cleanupDue, nextId, ret, emitted>>

(***************************************************************************)
(* Initial states and inputs                                               *)
(***************************************************************************)
Row(card, n) == [name |-> card.name, printing |-> card.printing, number |-> n]

EmptyDoc == [z \in Zones |-> <<>>]

DocWith(main, side) ==
    [z \in Zones |-> CASE z = "main" -> main [] z = "side" -> side [] OTHER -> <<>>]

InitWith(docs1, sizes) ==
    /\ deck \in {[d \in Docs |-> IF d = 1 THEN m ELSE EmptyDoc] : m \in docs1}
    /\ initDeck = deck
    /\ undoStack = <<>>
    /\ redoStack = <<>>
    /\ maxHistorySize \in sizes
    /\ mergingEnabled = TRUE
    /\ cleanupPending = FALSE
    /\ cleanupDue = 0
    /\ clock = 0
    /\ nextId = 1
    /\ ret = Returned("CommandManager", TRUE, "done")
    /\ emitted = <<>>

\* the commands a caller constructs now
CardCommands(kinds, docs, cards, zones, toZones, counts) ==
    {NewCommand(k, d, card, z, IF k = "SwapCard" THEN tz ELSE "", n, clock) :
        k \in kinds, d \in docs, card \in cards, z \in zones, tz \in toZones, n \in counts}

OtherCommand == NewCommand("Other", 1, InvalidCard, "", "", 0, clock)

Kinds == {"AddCard", "RemoveCard", "SwapCard"}

\* a behaviour holds at most n commands that executeCommand pushed or merged
Accepted(n) == nextId' <= n + 1

(***************************************************************************)
(* Spec: the manager's calls and the deferred cleanup, with commands on    *)
(* card X of document 1 (main and sideboard), null, non-modifying and      *)
(* base-interface commands.  Time stands still, merging stays enabled.     *)
(***************************************************************************)
Init == InitWith({DocWith(<<Row(CardX, 2)>>, <<>>)}, {DefaultMaxHistorySize})

Inputs ==
    CardCommands(Kinds, {1}, {CardX, InvalidCard}, {"main"}, {"main", "side"},
                 {-1, 0, 1, MaxCount})
        \cup {NullCommand}

Next ==
    \/ \E c \in Inputs : ExecuteCommand(c, TRUE) /\ Accepted(MaxCmds)
    \/ \E ok \in BOOLEAN : ExecuteCommand(OtherCommand, ok) /\ Accepted(MaxCmds)
    \/ \E ok \in BOOLEAN : Undo(ok)
    \/ \E ok \in BOOLEAN : Redo(ok)
    \/ ClearHistory
    \/ \E n \in {0, MaxHistory} : SetMaxHistorySize(n)
    \/ CleanupHistory

Spec == Init /\ [][Next]_vars

(***************************************************************************)
(* Properties of Spec                                                      *)
(***************************************************************************)
\* a step in which the manager call op ran
Called(op) == ret'.op = op /\ clock' = clock

\* C3 (as stated): right after any executeCommand call that returned true the
\* redo stack is empty, whatever command was passed.
C3_RedoEmptyAfterTrue ==
    (ret.op = "executeCommand" /\ ret.result) => ~canRedo

\* C3 (amended): right after an executeCommand call that returned true for a
\* command it executed (pushed or merged) the redo stack is empty, whatever
\* it held before; a call that returned true for a non-modifying command it
\* skipped leaves canRedo() as it was.
C3_RedoEmptyAfterExecuted ==
    /\ (ret.op = "executeCommand" /\ ret.result /\ ret.branch \in {"push", "merge"})
          => ~canRedo
    /\ (ret.op = "executeCommand" /\ ret.branch = "skip")
          => (ret.result /\ canRedo = ret.hadRedo)

C3_Witness ==
    /\ ret.op = "executeCommand"
    /\ ret.result
    /\ ret.branch \in {"push", "merge"}
    /\ ret.hadRedo
    /\ redoStack = <<>>

\* C4 (as stated): whenever maxHistorySize > 0 and no cleanup is pending, the
\* undo stack holds at most maxHistorySize commands.
C4_HistoryBound ==
    (maxHistorySize > 0 /\ ~cleanupPending) => Len(undoStack) <= maxHistorySize

\* C7: when execute() of a modifying command returns false inside
\* executeCommand (the call took its failure branch), the call returns false,
\* both stacks, the Document and the pending cleanup are as before, and
\* nothing is emitted.
C7_ExecutionFailure ==
    [][ (Called("executeCommand") /\ ret'.branch = "fail")
            => /\ ret'.result = FALSE
               /\ undoStack' = undoStack
               /\ redoStack' = redoStack
               /\ deck' = deck
               /\ cleanupPending' = cleanupPending
               /\ emitted' = <<>> ]_vars

C7_Witness ==
    /\ ret.op = "executeCommand"
    /\ ret.branch = "fail"
    /\ ~ret.result
    /\ canRedo
    /\ canUndo

\* C8: when the popped command's undo() returns false, undo() returns false,
\* both stacks are as before the call (the command is back on top), and
\* nothing is emitted.
C8_UndoFailure ==
    [][ \A ok \in BOOLEAN :
            ( /\ canUndo
              /\ ~undoCommand(Top(undoStack), deck[1], ok).ok
              /\ Undo(ok) )
            => /\ ret'.result = FALSE
               /\ undoStack' = undoStack
               /\ redoStack' = redoStack
               /\ emitted' = <<>> ]_vars

C8_Witness ==
    /\ ret.op = "undo"
    /\ ret.branch = "fail"
    /\ ~ret.result
    /\ canUndo
    /\ Len(undoStack) = 2

\* the commands C10 calls non-modifying
NonModifying(c) ==
    \/ c.count <= 0
    \/ ~isValidCard(c.card)
    \/ (c.kind = "SwapCard" /\ c.zone = c.toZone)

\* C10: executeCommand on a command with count <= 0, an invalid card, or (a
\* SwapCard) equal source and destination zones returns true and leaves both
\* stacks, the Document and the pending cleanup unchanged, emitting nothing:
\* every step either has that effect or is no such call.
C10_NonModifyingSkip ==
    [][ \/ /\ ret'.result = TRUE
           /\ undoStack' = undoStack
           /\ redoStack' = redoStack
           /\ deck' = deck
           /\ cleanupPending' = cleanupPending
           /\ emitted' = <<>>
        \/ \A c \in Inputs \ {NullCommand} :
              ~(NonModifying(c) /\ ExecuteCommand(c, TRUE)) ]_vars

C10_Witness ==
    /\ ret.op = "executeCommand"
    /\ ret.branch = "skip"
    /\ ret.result
    /\ canRedo
    /\ cleanupPending

\* the inputs C11 calls rejected: null, zero or negative count, invalid card
Rejected(c) ==
    \/ c = NullCommand
    \/ c.count <= 0
    \/ ~isValidCard(c.card)

\* C11 (as stated): executeCommand called with a null command, a command with
\* count <= 0 or a command with an invalid card returns false, changes
\* neither stack nor the Document, and emits nothing.
C11_RejectedInput ==
    [][ \A c \in Inputs :
            (Rejected(c) /\ ExecuteCommand(c, TRUE))
            => /\ ret'.result = FALSE
               /\ undoStack' = undoStack
               /\ redoStack' = redoStack
               /\ deck' = deck
               /\ emitted' = <<>> ]_vars

\* C11 (amended): executeCommand called with a null command returns false;
\* called with a command with count <= 0 or an invalid card it returns true
\* (the command is skipped); in both cases neither stack nor the Document
\* changes and nothing is emitted.  Every step either has the effect stated
\* for a skipped command or is no such call, and likewise for a null command.
C11_RejectedInputSkipped ==
    [][ /\ \/ /\ ret'.result = TRUE
              /\ undoStack' = undoStack
              /\ redoStack' = redoStack
              /\ deck' = deck
              /\ emitted' = <<>>
           \/ \A c \in Inputs \ {NullCommand} :
                 ~(Rejected(c) /\ ExecuteCommand(c, TRUE))
        /\ ExecuteCommand(NullCommand, TRUE)
              => /\ ret'.result = FALSE
                 /\ undoStack' = undoStack
                 /\ redoStack' = redoStack
                 /\ deck' = deck
                 /\ emitted' = <<>> ]_vars

C11_Witness ==
    /\ ret.op = "executeCommand"
    /\ ret.branch = "null"
    /\ ~ret.result
    /\ canUndo
    /\ canRedo

\* the signals that announce an operation, and the two updateState() emits
OperationSignals == {"commandExecuted", "commandUndone", "commandRedone", "historyCleared"}

StateSignals == {"undoRedoStateChanged", "descriptionsChanged"}

\* C12 (as stated): among the signals of one call, the state-changed and
\* descriptions-changed signals come after the call's executed / undone /
\* redone / history-cleared signal.
C12_EventOrder ==
    \A i, j \in 1..Len(emitted) :
        (emitted[i].sig \in OperationSignals /\ emitted[j].sig \in StateSignals)
            => i < j

\* C13: undo() on an empty undo stack and redo() on an empty redo stack
\* return false, change neither stack nor the Document and emit nothing;
\* canUndo() is true exactly when the undo stack holds a command and
\* canRedo() exactly when the redo stack does.
C13_EmptyStacks ==
    /\ []( /\ canUndo <=> Len(undoStack) > 0
           /\ canRedo <=> Len(redoStack) > 0 )
    /\ [][ (ret'.op = "undo" /\ Len(undoStack) = 0)
              => /\ ret'.result = FALSE
                 /\ undoStack' = undoStack
                 /\ redoStack' = redoStack
                 /\ deck' = deck
                 /\ emitted' = <<>> ]_vars
    /\ [][ (ret'.op = "redo" /\ Len(redoStack) = 0)
              => /\ ret'.result = FALSE
                 /\ undoStack' = undoStack
                 /\ redoStack' = redoStack
                 /\ deck' = deck
                 /\ emitted' = <<>> ]_vars

C13_Witness ==
    /\ ret.op = "redo"
    /\ ret.branch = "empty"
    /\ ~ret.result
    /\ canUndo
    /\ ~canRedo
    /\ deck # initDeck

\* the signal names of a sequence of emitted signals
Sigs(signals) == {signals[i].sig : i \in 1..Len(signals)}

\* C14: clearHistory, from any reachable state, leaves both stacks empty
\* (canUndo and canRedo false, both descriptions empty), leaves the Document
\* as it was, and emits state-changed(false, false), descriptions-changed
\* (with empty descriptions) and history-cleared, each once; the undo() or
\* redo() call that follows it returns false.
C14_ClearHistory ==
    /\ [][ ret'.op = "clearHistory"
              => /\ undoStack' = <<>>
                 /\ redoStack' = <<>>
                 /\ ~canUndo'
                 /\ ~canRedo'
                 /\ undoDescriptionOf(undoStack') = <<>>
                 /\ redoDescriptionOf(redoStack') = <<>>
                 /\ deck' = deck
                 /\ Len(emitted') = 3
                 /\ Sigs(emitted') = StateSignals \cup {"historyCleared"}
                 /\ \A i \in 1..3 :
                       /\ emitted'[i].sig = "undoRedoStateChanged"
                             => emitted'[i].args = <<FALSE, FALSE>>
                       /\ emitted'[i].sig = "descriptionsChanged"
                             => emitted'[i].args = << <<>>, <<>> >> ]_vars
    /\ [][ (ret.op = "clearHistory" /\ ret'.op \in {"undo", "redo"})
              => ~ret'.result ]_vars

\* clearHistory ran with commands on both stacks and a changed Document
C14_Witness ==
    /\ ret.op = "clearHistory"
    /\ ret.hadRedo
    /\ nextId > MaxCmds
    /\ undoStack = <<>>
    /\ redoStack = <<>>
    /\ deck # initDeck

AllCards == {CardX, CardX2, CardY}

\* the Document seen as a count per document, zone and card (0 when absent)
Counts(docs) ==
    [d \in Docs, z \in Zones, card \in AllCards |->
        data(docs[d], findCard(docs[d], card.name, z, card.printing))]

\* the identities of the commands on a stack, bottom to top
Ids(stack) == [i \in 1..Len(stack) |-> stack[i].id]

\* C15 (as stated): a redo() called right after a successful undo() succeeds
\* and returns the Document (every count), the undo stack (same entries, same
\* order) and the redo stack to what they were before the undo().
C15_UndoRedoInverse ==
    [][ (ret.op = "undo" /\ ret.result /\ ret'.op = "redo")
            => /\ ret'.result
               /\ Counts(deck') = Counts(ret.before.deck)
               /\ Ids(undoStack') = Ids(ret.before.undoStack)
               /\ Ids(redoStack') = Ids(ret.before.redoStack) ]_vars

\* C18: executeCommand never removes an entry from the undo stack: after a
\* call the entries that were there are still there in order, the length is
\* unchanged after a merge and one more after a push, even above
\* maxHistorySize; the oldest entry leaves the stack only in a separate
\* cleanup step (or by clearHistory, or by undo() of the only entry).
C18_NoInlineCleanup ==
    /\ [][ ret'.op = "executeCommand"
              => /\ Len(undoStack') >= Len(undoStack)
                 /\ SubSeq(Ids(undoStack'), 1, Len(undoStack)) = Ids(undoStack)
                 /\ ret'.branch = "merge" => Len(undoStack') = Len(undoStack)
                 /\ ret'.branch = "push" => Len(undoStack') = Len(undoStack) + 1
                 /\ ret'.branch \notin {"merge", "push"} => undoStack' = undoStack ]_vars
    /\ [][ ( /\ undoStack # <<>>
              /\ \/ undoStack' = <<>>
                 \/ undoStack'[1].id # undoStack[1].id )
            => \/ ret'.op = "cleanupHistory" /\ ret'.branch = "trim"
               \/ ret'.op = "clearHistory"
               \/ ret'.op = "undo" /\ Len(undoStack) = 1 ]_vars

\* a push has just taken the undo stack above the bound
C18_Witness ==
    /\ ret.op = "executeCommand"
    /\ ret.branch = "push"
    /\ maxHistorySize > 0
    /\ Len(undoStack) > maxHistorySize
    /\ cleanupPending

\* C21: in every reachable state no command is held twice: the identities on
\* the undo stack and the redo stack together are pairwise distinct (so no
\* command is on both stacks or twice on one), and a command enters the
\* stacks only as the freshly executed one: every command held after a step
\* was held before it or is the command executeCommand has just been given,
\* so one discarded by merge, trim, redo-clear or clearHistory never returns.
C21_ExclusiveOwnership ==
    /\ [](LET held == Ids(undoStack \o redoStack)
          IN /\ \A i, j \in 1..Len(held) : held[i] = held[j] => i = j
             /\ \A i \in 1..Len(held) : held[i] < nextId)
    /\ [][ LET before == Ids(undoStack \o redoStack)
               after == Ids(undoStack' \o redoStack')
           IN \A j \in 1..Len(after) :
                 \/ \E i \in 1..Len(before) : before[i] = after[j]
                 \/ /\ after[j] = nextId
                    /\ nextId' = nextId + 1
                    /\ ret'.op = "executeCommand" ]_vars

\* of two executed commands the first was discarded and the second has been
\* undone and redone
C21_Witness ==
    /\ ret.op = "redo"
    /\ ret.result
    /\ nextId = MaxCmds + 1
    /\ redoStack = <<>>
    /\ Ids(undoStack) = <<MaxCmds>>
    /\ Top(undoStack).absorbed = 0

\* what an observer is told: the payloads of the two updateState() signals
Observed == << <<canUndo, canRedo>>,
               <<undoDescriptionOf(undoStack), redoDescriptionOf(redoStack)>> >>

\* C32: between manager calls the last state-changed payload is (canUndo(),
\* canRedo()) and the last descriptions-changed payload is (undoDescription(),
\* redoDescription()): a call that emits anything emits both signals with the
\* values that hold when it returns, and a step that emits nothing (a failed
\* undo() or redo(), a skipped or failed executeCommand, the deferred
\* cleanup, setMaxHistorySize) leaves those four values as they were.
C32_ObserverConsistency ==
    /\ [](emitted # <<>>
            => /\ StateSignals \subseteq Sigs(emitted)
               /\ \A i \in 1..Len(emitted) :
                     /\ emitted[i].sig = "undoRedoStateChanged"
                           => emitted[i].args = Observed[1]
                     /\ emitted[i].sig = "descriptionsChanged"
                           => emitted[i].args = Observed[2])
    /\ [][ emitted' = <<>> => Observed' = Observed ]_vars

\* the deferred cleanup has trimmed the undo stack, telling nobody, with
\* undo still possible
C32_Witness ==
    /\ ret.op = "cleanupHistory"
    /\ ret.branch = "trim"
    /\ emitted = <<>>
    /\ canUndo
    /\ nextId = MaxCmds + 1

MaxRoundTripCmds == 2


InitRoundTrip ==
    InitWith({EmptyDoc, DocWith(<<Row(CardX, 1), Row(CardY, 1)>>, <<>>)},
             {DefaultMaxHistorySize})

RoundTripInputs ==
    CardCommands(Kinds, {1}, {CardX, CardY}, {"main"}, {"side"}, 1..MaxCount)

NextRoundTrip ==
    \/ \E c \in RoundTripInputs :
          /\ redoStack = <<>>
          /\ ExecuteCommand(c, TRUE)
          /\ Accepted(MaxRoundTripCmds)
    \/ Undo(TRUE)
    \/ \E delta \in Deltas : redoStack = <<>> /\ Tick(delta)

SpecRoundTrip == InitRoundTrip /\ [][NextRoundTrip]_vars

\* C1 (as stated): after successful executeCommand calls followed by undo()
\* until the undo stack is empty, every (card, zone, printing) count of the
\* Document is what it was before the first call.
C1_RoundTrip ==
    undoStack = <<>> => Counts(deck) = Counts(initDeck)

\* C2 (as stated): one undo() of an entry that absorbed merged commands
\* reverses the Document changes of every command merged into it.  Here every
\* accepted command went into the one entry, so the Document is back at its
\* initial counts.
C2_MergedUndoReversesAll ==
    ( /\ ret.op = "undo"
      /\ ret.result
      /\ undoStack = <<>>
      /\ Len(redoStack) = 1
      /\ redoStack[1].absorbed > 0
      /\ nextId = redoStack[1].absorbed + 2 )
    => Counts(deck) = Counts(initDeck)

\* C28 (as stated): an undo() acts only on entries of the command's own card,
\* found again at undo time: it never changes the number of copies of a card
\* with another name, in any zone, whatever was removed or re-added between
\* the command's execute() and its undo().
C28_HandleReResolution ==
    [][ (ret'.op = "undo" /\ canUndo)
        => \A card \in AllCards : \A z \in Zones :
              card.name # Top(undoStack).card.name
                 => copies(deck'[1], z, card.name) = copies(deck[1], z, card.name) ]_vars

(***************************************************************************)
(* SpecUndoRedo: executeCommand, undo() and redo() with AddCard and        *)
(* RemoveCard commands on card X of document 1, time passing in between.   *)
(***************************************************************************)
MaxUndoRedoCmds == 3

InitUndoRedo == InitWith({DocWith(<<Row(CardX, 3)>>, <<>>)}, {DefaultMaxHistorySize})

UndoRedoInputs ==
    CardCommands({"AddCard", "RemoveCard"}, {1}, {CardX}, {"main"}, {"side"}, {1})

NextUndoRedo ==
    \/ \E c \in UndoRedoInputs : ExecuteCommand(c, TRUE) /\ Accepted(MaxUndoRedoCmds)
    \/ Undo(TRUE)
    \/ Redo(TRUE)
    \/ \E delta \in Deltas : Tick(delta)

SpecUndoRedo == InitUndoRedo /\ [][NextUndoRedo]_vars

\* C9 (as stated): when the popped command's execute() returns false during
\* redo(), redo() returns false, the command is back on top of the redo stack
\* unchanged (same records, still not applied), the undo stack and the
\* Document are unchanged, and nothing is emitted.
C9_RedoFailure ==
    [][ ( /\ canRedo
          /\ ~execute(Top(redoStack), deck[1], TRUE).ok
          /\ Redo(TRUE) )
        => /\ ret'.result = FALSE
           /\ redoStack' = redoStack
           /\ undoStack' = undoStack
           /\ deck' = deck
           /\ emitted' = <<>> ]_vars

\* C20 (as stated): every command on the undo stack is applied (executed flag
\* set, undo records present) and every command on the redo stack is reversed
\* (executed flag clear), also after failed undo() or redo() calls.
C20_AppliedReversed ==
    /\ \A i \in 1..Len(undoStack) :
          undoStack[i].executed /\ undoStack[i].recs # <<>>
    /\ \A i \in 1..Len(redoStack) : ~redoStack[i].executed

(***************************************************************************)
(* SpecBounded: a bound N > 0, executeCommand calls that push (no merge),  *)
(* the deferred cleanup, and undo()/redo() once the cleanup has run.       *)
(***************************************************************************)
MaxBoundedCmds == 3

InitBounded == InitWith({DocWith(<<Row(CardX, 2)>>, <<>>)}, 1..(MaxHistory + 1))

BoundedInputs ==
    CardCommands(Kinds, {1}, {CardX}, {"main"}, {"side"}, {1})

NextBounded ==
    \/ \E c \in BoundedInputs :
          /\ redoStack = <<>>
          /\ ExecuteCommand(c, TRUE)
          /\ ret'.branch = "push"
          /\ Accepted(MaxBoundedCmds)
    \/ CleanupHistory
    \/ ~cleanupPending /\ Undo(TRUE)
    \/ ~cleanupPending /\ Redo(TRUE)

SpecBounded == InitBounded /\ [][NextBounded]_vars

Reverse(seq) == [i \in 1..Len(seq) |-> seq[Len(seq) + 1 - i]]

\* C5: with maxHistorySize = N > 0, once the cleanup has run after n pushed
\* commands the history (undo stack, then the undone commands) is exactly the
\* min(n, N) most recent commands in order; undo() succeeds exactly while the
\* undo stack is non-empty, so N undo() calls succeed and the next returns
\* false; the cleanup changes neither the Document nor the redo stack, so the
\* trimmed commands stay applied and never come back.
C5_BoundedHistory ==
    /\ [](~cleanupPending =>
            LET n == nextId - 1
                history == undoStack \o Reverse(redoStack)
                kept == IF n < maxHistorySize THEN n ELSE maxHistorySize
            IN /\ Len(history) = kept
               /\ \A i \in 1..kept : history[i].id = n - kept + i)
    /\ [][ret'.op = "undo" => (ret'.result <=> canUndo)]_vars
    /\ [][ret'.op = "undo" /\ ret'.result => Len(undoStack') = Len(undoStack) - 1]_vars
    /\ [][ret'.op = "cleanupHistory" => (deck' = deck /\ redoStack' = redoStack)]_vars

C5_Witness ==
    /\ ~cleanupPending
    /\ nextId - 1 > maxHistorySize
    /\ undoStack = <<>>
    /\ Len(redoStack) = maxHistorySize
    /\ ret.op = "undo"
    /\ ~ret.result

(***************************************************************************)
(* SpecMerge: executeCommand with commands that differ from AddCard(X,     *)
(* main) on document 1 in kind, document, card, zone or creation time,     *)
(* with time passing and merging switched on and off.                      *)
(***************************************************************************)
MaxMergeCmds == 2

InitMerge == InitWith({DocWith(<<Row(CardX, 2)>>, <<Row(CardX, 1)>>)},
                      {DefaultMaxHistorySize})

\* AddCard(X, main) on document 1, created now or (handed over late) at time 0
BaseInputs ==
    {[c EXCEPT !.ts = t] :
        c \in CardCommands({"AddCard"}, {1}, {CardX}, {"main"}, {"side"}, {1, MaxCount}),
        t \in {0, clock}}

\* commands created now that differ from it in document, printing, name,
\* zone, kind or (swaps) one of the two zones
MergeInputs ==
    BaseInputs
    \cup CardCommands({"AddCard"}, {2}, {CardX}, {"main"}, {"side"}, {1})
    \cup CardCommands({"AddCard"}, {1}, {CardX2, CardY}, {"main"}, {"side"}, {1})
    \cup CardCommands({"AddCard"}, {1}, {CardX}, {"side"}, {"side"}, {1})
    \cup CardCommands({"RemoveCard"}, {1}, {CardX}, {"main"}, {"side"}, {1})
    \cup CardCommands({"SwapCard"}, {1}, {CardX}, {"main"}, {"side", "tokens"}, {1})
    \cup CardCommands({"SwapCard"}, {1}, {CardX}, {"side"}, {"tokens"}, {1})

NextMerge ==
    \/ \E c \in MergeInputs : ExecuteCommand(c, TRUE) /\ Accepted(MaxMergeCmds)
    \/ \E b \in BOOLEAN : SetMergingEnabled(b)
    \/ \E delta \in Deltas : Tick(delta)

SpecMerge == InitMerge /\ [][NextMerge]_vars

\* the condition C6 states for absorbing command c into the undo-stack top
MergeCondition(c) ==
    /\ mergingEnabled
    /\ undoStack # <<>>
    /\ LET top == Top(undoStack)
       IN /\ top.kind = c.kind
          /\ top.deck = c.deck
          /\ top.card.name = c.card.name
          /\ top.zone = c.zone
          /\ top.toZone = c.toZone
          /\ top.ts - c.ts < 5000
          /\ c.ts - top.ts < 5000

\* C6: a successfully executed command is absorbed into the undo-stack top
\* (length unchanged, the top's count becomes the sum, the entries below
\* untouched) exactly when merging is enabled, the stack is non-empty and the
\* top has the same kind, document, card name and zone(s) and a creation time
\* less than 5000 ms away; otherwise it is pushed as a separate entry.
C6_MergeCondition ==
    [][ (Called("executeCommand") /\ ret'.branch \in {"push", "merge"})
            => LET c == ret'.arg
               IN IF MergeCondition(c)
                  THEN /\ ret'.branch = "merge"
                       /\ Len(undoStack') = Len(undoStack)
                       /\ Pop(undoStack') = Pop(undoStack)
                       /\ Top(undoStack').count = Top(undoStack).count + c.count
                       /\ Top(undoStack').id = Top(undoStack).id
                  ELSE /\ ret'.branch = "push"
                       /\ Len(undoStack') = Len(undoStack) + 1
                       /\ Pop(undoStack') = undoStack
                       /\ Top(undoStack').count = c.count
                       /\ Top(undoStack').id = nextId ]_vars

\* a command created 4999 ms after the top, for another printing of the same
\* card name, has just been absorbed
C6_Witness ==
    /\ ret.op = "executeCommand"
    /\ ret.branch = "merge"
    /\ Len(undoStack) = 1
    /\ Top(undoStack).absorbed = 1
    /\ Top(undoStack).count = 2
    /\ Top(undoStack).card = CardX
    /\ Top(undoStack).ts = 0
    /\ clock = MergeWindow - 1
    /\ Counts(deck)[1, "main", CardX2] = Counts(initDeck)[1, "main", CardX2] + 1

(***************************************************************************)
(* SpecUnits: with merging switched off, RemoveCard and SwapCard commands  *)
(* asking for 1..MaxCount+1 copies of X on documents that hold 0..MaxCopies*)
(* copies of one printing and at most one of another; undo() and redo().   *)
(***************************************************************************)
MaxUnitCmds == 1

MaxCopies == 2

\* zero copies of a printing is no row at all
RowsOf(card, n) == IF n = 0 THEN <<>> ELSE <<Row(card, n)>>

UnitDocs ==
    {DocWith(RowsOf(CardX, a) \o RowsOf(CardX2, b), RowsOf(CardX2, k)) :
        a \in 0..MaxCopies, b \in 0..1, k \in 0..1}

\* the manager after setMergingEnabled(false)
InitUnits ==
    /\ deck \in {[d \in Docs |-> IF d = 1 THEN m ELSE EmptyDoc] : m \in UnitDocs}
    /\ initDeck = deck
    /\ undoStack = <<>>
    /\ redoStack = <<>>
    /\ maxHistorySize = DefaultMaxHistorySize
    /\ mergingEnabled = FALSE
    /\ cleanupPending = FALSE
    /\ cleanupDue = 0
    /\ clock = 0
    /\ nextId = 1
    /\ ret = Returned("setMergingEnabled", TRUE, "done")
    /\ emitted = <<>>

UnitInputs ==
    CardCommands({"RemoveCard", "SwapCard"}, {1}, {CardX, CardX2}, {"main"}, {"side"},
                 1..(MaxCount + 1))

NextUnits ==
    \/ \E c \in UnitInputs : ExecuteCommand(c, TRUE) /\ Accepted(MaxUnitCmds)
    \/ Undo(TRUE)
    \/ Redo(TRUE)

SpecUnits == InitUnits /\ [][NextUnits]_vars

\* C16: a RemoveCard asking for c copies of a card of which n >= 1 copies are
\* in the zone succeeds and removes exactly min(c, n) copies, so that with
\* n <= c no entry of the card is left (n = c = 1 included); its undo()
\* succeeds and gives back exactly the copies it removed, not c.
C16_PartialRemoval ==
    /\ [][ \A c \in UnitInputs :
              LET n == copies(deck[1], c.zone, c.card.name)
                  taken == IF c.count < n THEN c.count ELSE n
              IN ( /\ c.kind = "RemoveCard"
                   /\ n >= 1
                   /\ ExecuteCommand(c, TRUE) )
                 => /\ ret'.result
                    /\ copies(deck'[1], c.zone, c.card.name) = n - taken
                    /\ n <= c.count
                          => ~indexIsValid(findCardAnyPrinting(deck'[1], c.card.name,
                                                               c.zone))
                    /\ Top(undoStack').actually = taken ]_vars
    /\ [][ ( /\ ret'.op = "undo"
              /\ canUndo
              /\ Top(undoStack).kind = "RemoveCard" )
            => LET c == Top(undoStack)
               IN /\ ret'.result
                  /\ copies(deck'[1], c.zone, c.card.name)
                        = copies(deck[1], c.zone, c.card.name) + c.actually ]_vars

\* a RemoveCard that asked for more copies than there were has been undone
\* and the copies it took are back
C16_Witness ==
    /\ ret.op = "undo"
    /\ ret.result
    /\ Top(redoStack).kind = "RemoveCard"
    /\ Top(redoStack).count > copies(initDeck[1], "main", "X")
    /\ copies(initDeck[1], "main", "X") >= 1
    /\ nextId = 2
    /\ copies(deck[1], "main", "X") = copies(initDeck[1], "main", "X")

\* C17: a SwapCard of c copies between two different zones, with n >= 1
\* copies of the card in the source, succeeds and moves exactly min(c, n)
\* copies (the source loses them, the destination gains them); its undo()
\* succeeds and moves exactly that many back.
C17_SwapMoves ==
    /\ [][ \A c \in UnitInputs :
              LET n == copies(deck[1], c.zone, c.card.name)
                  moved == IF c.count < n THEN c.count ELSE n
              IN ( /\ c.kind = "SwapCard"
                   /\ c.zone # c.toZone
                   /\ n >= 1
                   /\ ExecuteCommand(c, TRUE) )
                 => /\ ret'.result
                    /\ copies(deck'[1], c.zone, c.card.name) = n - moved
                    /\ copies(deck'[1], c.toZone, c.card.name)
                          = copies(deck[1], c.toZone, c.card.name) + moved
                    /\ Top(undoStack').actually = moved ]_vars
    /\ [][ ( /\ ret'.op = "undo"
              /\ canUndo
              /\ Top(undoStack).kind = "SwapCard" )
            => LET c == Top(undoStack)
               IN /\ ret'.result
                  /\ copies(deck'[1], c.zone, c.card.name)
                        = copies(deck[1], c.zone, c.card.name) + c.actually
                  /\ copies(deck'[1], c.toZone, c.card.name)
                        = copies(deck[1], c.toZone, c.card.name) - c.actually ]_vars

\* main X x2, SwapCard(X, main, side, 2) executed and undone: main 2, side 0
C17_Witness ==
    /\ ret.op = "undo"
    /\ ret.result
    /\ Top(redoStack).kind = "SwapCard"
    /\ Top(redoStack).count = 2
    /\ nextId = 2
    /\ initDeck[1] = DocWith(<<Row(CardX, 2)>>, <<>>)
    /\ ret.before.deck[1] = DocWith(<<>>, <<Row(CardX, 2)>>)
    /\ deck = initDeck

\* C29: RemoveCard and SwapCard execute() take each unit from the entry of the
\* command's own printing while the zone holds one, from another printing of
\* the same name only once it holds none, and stop at the first unit for
\* which the zone holds no entry of the name: of e copies of the printing and
\* o copies of other printings, a command asking for c takes min(c, e) and
\* min(c - min(c, e), o), records exactly that many units, and fails without
\* touching the Document when both are 0.
C29_LookupPolicy ==
    [][ \A c \in UnitInputs :
           LET e == data(deck[1], findCard(deck[1], c.card.name, c.zone, c.card.printing))
               o == copies(deck[1], c.zone, c.card.name) - e
               fromExact == IF c.count < e THEN c.count ELSE e
               rest == c.count - fromExact
               fromOther == IF rest < o THEN rest ELSE o
           IN ExecuteCommand(c, TRUE)
              => /\ data(deck'[1], findCard(deck'[1], c.card.name, c.zone, c.card.printing))
                       = e - fromExact
                 /\ copies(deck'[1], c.zone, c.card.name) = e + o - fromExact - fromOther
                 /\ fromExact + fromOther > 0
                       => /\ ret'.branch = "push"
                          /\ Top(undoStack').actually = fromExact + fromOther
                          /\ Len(Top(undoStack').recs) = fromExact + fromOther
                          /\ \A i \in 1..fromExact :
                                deck[1][c.zone][Top(undoStack').recs[i].index.row].printing
                                   = c.card.printing
                 /\ fromExact + fromOther = 0
                       => /\ ret'.branch = "fail"
                          /\ deck' = deck ]_vars

\* main holds one X of printing p1 and, below it, one of p2; a RemoveCard of
\* three X of printing p2 took the p2 entry first, then the p1 entry, then
\* stopped
C29_Witness ==
    /\ ret.op = "executeCommand"
    /\ ret.branch = "push"
    /\ initDeck[1]["main"] = <<Row(CardX, 1), Row(CardX2, 1)>>
    /\ nextId = 2
    /\ Top(undoStack).kind = "RemoveCard"
    /\ Top(undoStack).card = CardX2
    /\ Top(undoStack).count = 3
    /\ Top(undoStack).actually = 2
    /\ Top(undoStack).recs[1].index.row = 2
    /\ Top(undoStack).recs[2].index.row = 1
    /\ deck[1]["main"] = <<>>

(***************************************************************************)
(* SpecCleanup: a positive bound, executeCommand and setMaxHistorySize     *)
(* calls with time passing in steps shorter than the timer's interval, and *)
(* the cleanup run once the timer is due.                                  *)
(***************************************************************************)
MaxCleanupCmds == 3

MaxCleanupClock == 200

InitCleanup == InitWith({DocWith(<<Row(CardX, 2)>>, <<>>)}, {MaxHistory})

CleanupInputs ==
    CardCommands({"AddCard", "RemoveCard"}, {1}, {CardX}, {"main"}, {"side"}, {1})

NextCleanup ==
    \/ \E c \in CleanupInputs : ExecuteCommand(c, TRUE) /\ Accepted(MaxCleanupCmds)
    \/ \E n \in {0, MaxHistory} : SetMaxHistorySize(n)
    \/ clock >= cleanupDue /\ CleanupHistory
    \/ clock < MaxCleanupClock /\ Tick(CleanupInterval \div 2)

SpecCleanup == InitCleanup /\ [][NextCleanup]_vars

\* C19 (as stated): an executeCommand or setMaxHistorySize call made while a
\* cleanup is pending leaves the pending cleanup as it is: still pending and
\* due at the same time (neither a second run nor a postponement).
C19_Coalescing ==
    [][ (cleanupPending /\ ret'.op \in {"executeCommand", "setMaxHistorySize"})
            => /\ cleanupPending'
               /\ cleanupDue' = cleanupDue ]_vars

(***************************************************************************)
(* SpecTrim: executeCommand, undo(), redo(), clearHistory and              *)
(* setMaxHistorySize (unlimited, MaxHistory, MaxHistory + 1) in any order, *)
(* and the deferred cleanup whenever the timer is active.                  *)
(***************************************************************************)
\* commands executeCommand accepts in one behaviour of SpecTrim
MaxTrimCmds == 3

InitTrim == InitWith({DocWith(<<Row(CardX, 2)>>, <<>>)}, {0, MaxHistory})

TrimInputs ==
    CardCommands({"AddCard", "RemoveCard"}, {1}, {CardX}, {"main"}, {"side"}, {1})

TrimSizes == {0, MaxHistory, MaxHistory + 1}

NextTrim ==
    \/ \E c \in TrimInputs : ExecuteCommand(c, TRUE) /\ Accepted(MaxTrimCmds)
    \/ Undo(TRUE)
    \/ Redo(TRUE)
    \/ ClearHistory
    \/ \E n \in TrimSizes : SetMaxHistorySize(n)
    \/ CleanupHistory

SpecTrim == InitTrim /\ [][NextTrim]_vars

\* C22: when the cleanup runs with maxHistorySize = N > 0 and an undo stack of
\* length L > N, the undo stack afterwards has length N and its i-th entry is
\* the old stack's (L - N + i)-th: the N most recent entries in their order,
\* the top unchanged, the L - N oldest gone; the redo stack and the Document
\* are unchanged.
C22_TrimFromBottom ==
    [][ ( /\ ret'.op = "cleanupHistory"
          /\ maxHistorySize > 0
          /\ Len(undoStack) > maxHistorySize )
        => LET N == maxHistorySize
               L == Len(undoStack)
           IN /\ Len(undoStack') = N
              /\ \A i \in 1..N : undoStack'[i] = undoStack[L - N + i]
              /\ Top(undoStack') = Top(undoStack)
              /\ redoStack' = redoStack
              /\ deck' = deck ]_vars

\* the cleanup has cut a longer undo stack down to two entries
C22_Witness ==
    /\ ret.op = "cleanupHistory"
    /\ ret.branch = "trim"
    /\ maxHistorySize = MaxHistory + 1
    /\ Len(undoStack) = MaxHistory + 1
    /\ undoStack[1].id > 1
    /\ deck # initDeck

\* C23: a cleanup that runs when maxHistorySize <= 0, or when the undo stack
\* is no longer than maxHistorySize, changes nothing: both stacks and the
\* Document are as they were.
C23_CleanupRevalidates ==
    [][ ( /\ ret'.op = "cleanupHistory"
          /\ \/ maxHistorySize <= 0
             \/ Len(undoStack) <= maxHistorySize )
        => /\ undoStack' = undoStack
           /\ redoStack' = redoStack
           /\ deck' = deck ]_vars

\* a cleanup scheduled by two pushes over a bound of MaxHistory has run after
\* clearHistory emptied the stacks
C23_Witness ==
    /\ ret.op = "cleanupHistory"
    /\ ret.branch = "none"
    /\ maxHistorySize = MaxHistory
    /\ undoStack = <<>>
    /\ redoStack = <<>>
    /\ nextId > MaxHistory + 1
    /\ deck # initDeck

\* C25: setMaxHistorySize(n) makes n the bound and changes neither stack nor
\* the Document; it starts the cleanup timer when n > 0 and the undo stack is
\* longer than n, and otherwise leaves the timer as it was.  A cleanup that
\* runs while maxHistorySize is 0 removes nothing from the undo stack.
C25_SetMaxHistorySize ==
    /\ [][ \A n \in TrimSizes :
              SetMaxHistorySize(n)
              => /\ maxHistorySize' = n
                 /\ undoStack' = undoStack
                 /\ redoStack' = redoStack
                 /\ deck' = deck
                 /\ IF n > 0 /\ Len(undoStack) > n
                    THEN /\ cleanupPending'
                         /\ cleanupDue' = clock + CleanupInterval
                    ELSE /\ cleanupPending' = cleanupPending
                         /\ cleanupDue' = cleanupDue ]_vars
    /\ [][ (ret'.op = "cleanupHistory" /\ maxHistorySize = 0)
              => undoStack' = undoStack ]_vars

\* a cleanup scheduled under a bound of MaxHistory has run after the bound
\* was set to 0, on an undo stack longer than MaxHistory
C25_Witness ==
    /\ ret.op = "cleanupHistory"
    /\ maxHistorySize = 0
    /\ Len(undoStack) > MaxHistory
    /\ ~cleanupPending

(***************************************************************************)
(* SpecTimer: the cleanup timer under fair scheduling.  Merging is off, so *)
(* no command timestamp is compared, and the only time that matters is the *)
(* distance from now to the timer's deadline; time is therefore measured   *)
(* from now: when delta ms pass the deadline is delta nearer and the clock *)
(* reads the same.  executeCommand, setMaxHistorySize and the passing of   *)
(* time can go on for ever; the timeout runs once the deadline is reached. *)
(***************************************************************************)
\* commands executeCommand accepts in one behaviour of SpecTimer
MaxTimerCmds == 3

InitTimer ==
    /\ deck = [d \in Docs |-> IF d = 1 THEN DocWith(<<Row(CardX, 2)>>, <<>>) ELSE EmptyDoc]
    /\ initDeck = deck
    /\ undoStack = <<>>
    /\ redoStack = <<>>
    /\ maxHistorySize = MaxHistory
    /\ mergingEnabled = FALSE
    /\ cleanupPending = FALSE
    /\ cleanupDue = 0
    /\ clock = 0
    /\ nextId = 1
    /\ ret = Returned("setMergingEnabled", TRUE, "done")
    /\ emitted = <<>>

\* delta ms pass while the timer runs
Elapse(delta) ==
    /\ cleanupPending
    /\ cleanupDue > clock
    /\ cleanupDue' = IF cleanupDue - delta > clock THEN cleanupDue - delta ELSE clock
    /\ UNCHANGED <<deck, initDeck, undoStack, redoStack, maxHistorySize, mergingEnabled,
                   cleanupPending, clock, nextId, ret, emitted>>

\* the timer's timeout, delivered by the event loop once the deadline is reached
Timeout == clock >= cleanupDue /\ CleanupHistory

NextTimer ==
    \/ \E c \in CleanupInputs : ExecuteCommand(c, TRUE) /\ Accepted(MaxTimerCmds)
    \/ \E n \in {MaxHistory, MaxHistory + 1} : SetMaxHistorySize(n)
    \/ Timeout
    \/ Elapse(CleanupInterval \div 2)

\* time passes, and a timeout that is due is delivered
SpecTimer ==
    /\ InitTimer
    /\ [][NextTimer]_vars
    /\ WF_vars(Elapse(CleanupInterval \div 2))
    /\ WF_vars(Timeout)

\* C24 (as stated): whenever executeCommand or setMaxHistorySize has returned
\* with maxHistorySize > 0 and an undo stack longer than maxHistorySize, a
\* cleanup is pending, and the undo stack eventually is no longer than the
\* bound, whatever calls are made before the cleanup runs.
C24_CleanupLiveness ==
    /\ []( ( /\ ret.op \in {"executeCommand", "setMaxHistorySize"}
             /\ overLimit(maxHistorySize, undoStack) )
           => cleanupPending )
    /\ ( /\ ret.op \in {"executeCommand", "setMaxHistorySize"}
         /\ overLimit(maxHistorySize, undoStack) )
       ~> ~overLimit(maxHistorySize, undoStack)

(***************************************************************************)
(* SpecMergeDepth: executeCommand with merging on and commands on two      *)
(* cards of the main zone, so that the undo stack holds entries a new      *)
(* command could merge with below a top it cannot merge with.              *)
(***************************************************************************)
\* commands executeCommand accepts in one behaviour of SpecMergeDepth
MaxDepthCmds == 3

InitMergeDepth ==
    InitWith({DocWith(<<Row(CardX, 2), Row(CardY, 2)>>, <<>>)}, {DefaultMaxHistorySize})

MergeDepthInputs ==
    CardCommands({"AddCard", "RemoveCard"}, {1}, {CardX, CardY}, {"main"}, {"side"},
                 {1, MaxCount})

NextMergeDepth ==
    \/ \E c \in MergeDepthInputs : ExecuteCommand(c, TRUE) /\ Accepted(MaxDepthCmds)
    \/ \E delta \in Deltas : Tick(delta)

SpecMergeDepth == InitMergeDepth /\ [][NextMergeDepth]_vars

\* what the spec calls merge-compatible: the same kind, document, card name
\* and zone(s), created less than 5000 ms apart
MergeCompatible(entry, c) ==
    /\ entry.kind = c.kind
    /\ entry.deck = c.deck
    /\ entry.card.name = c.card.name
    /\ entry.zone = c.zone
    /\ entry.toZone = c.toZone
    /\ entry.ts - c.ts < 5000
    /\ c.ts - entry.ts < 5000

\* C26: executeCommand leaves every undo-stack entry below the top exactly as
\* it was, and a command that is not merge-compatible with the top is pushed
\* as a new entry above an unchanged stack, also when a deeper entry is
\* merge-compatible with it (Add X, Add Y, Add X within 5000 ms).
C26_MergeTopOnly ==
    [][ Called("executeCommand")
        => /\ Len(undoStack') >= Len(undoStack)
           /\ \A i \in 1..(Len(undoStack) - 1) : undoStack'[i] = undoStack[i]
           /\ ( /\ ret'.branch \in {"push", "merge"}
                /\ undoStack # <<>>
                /\ ~MergeCompatible(Top(undoStack), ret'.arg) )
              => /\ ret'.branch = "push"
                 /\ Len(undoStack') = Len(undoStack) + 1
                 /\ SubSeq(undoStack', 1, Len(undoStack)) = undoStack
                 /\ Top(undoStack').count = ret'.arg.count ]_vars

\* Add X, Add Y, Add X within 5000 ms: three entries, the first still Add 1x X
C26_Witness ==
    /\ ret.op = "executeCommand"
    /\ ret.branch = "push"
    /\ clock < MergeWindow
    /\ Len(undoStack) = 3
    /\ \A i \in 1..3 : undoStack[i].kind = "AddCard" /\ undoStack[i].count = 1
    /\ undoStack[1].card = CardX
    /\ undoStack[2].card = CardY
    /\ undoStack[3].card = CardX
    /\ MergeCompatible(undoStack[1], ret.arg)

(***************************************************************************)
(* SpecSpan: executeCommand, undo() and redo() with merging on and time    *)
(* passing in steps of half the merge window, so that a chain of commands  *)
(* each close to the one before reaches past the window of the first.      *)
(***************************************************************************)
\* commands executeCommand accepts in one behaviour of SpecSpan
MaxSpanCmds == 3

InitSpan == InitWith({DocWith(<<Row(CardX, 2)>>, <<>>)}, {DefaultMaxHistorySize})

\* commands on X in main created now, or created at time 0 and handed over now
SpanInputs ==
    {[c EXCEPT !.ts = t] :
        c \in CardCommands({"AddCard", "RemoveCard"}, {1}, {CardX}, {"main"}, {"side"}, {1}),
        t \in {0, clock}}

NextSpan ==
    \/ \E c \in SpanInputs : ExecuteCommand(c, TRUE) /\ Accepted(MaxSpanCmds)
    \/ Undo(TRUE)
    \/ Redo(TRUE)
    \/ Tick(MergeWindow \div 2)

SpecSpan == InitSpan /\ [][NextSpan]_vars

\* C27: the timestamp of a command on either stack never changes, a merge
\* included (the entry keeps its identity and its creation time), and a
\* command is absorbed only when it was created less than 5000 ms before or
\* after the creation of the entry that absorbs it; so the commands one entry
\* has taken in all lie within that window of the entry's own creation time.
C27_BoundedMergeSpan ==
    /\ [][ LET before == undoStack \o redoStack
               after == undoStack' \o redoStack'
           IN \A i \in 1..Len(after) : \A j \in 1..Len(before) :
                 after[i].id = before[j].id => after[i].ts = before[j].ts ]_vars
    /\ [][ (Called("executeCommand") /\ ret'.branch = "merge")
              => /\ Top(undoStack').id = Top(undoStack).id
                 /\ Top(undoStack').ts = Top(undoStack).ts
                 /\ ret'.arg.ts - Top(undoStack).ts < 5000
                 /\ Top(undoStack).ts - ret'.arg.ts < 5000 ]_vars

\* Add X at 0, Add X at 2500 (absorbed), Add X at 5000: a second entry
C27_Witness ==
    /\ ret.op = "executeCommand"
    /\ ret.branch = "push"
    /\ Len(undoStack) = 2
    /\ undoStack[1].kind = "AddCard"
    /\ undoStack[2].kind = "AddCard"
    /\ undoStack[1].absorbed = 1
    /\ undoStack[1].ts = 0
    /\ undoStack[2].ts = 2 * (MergeWindow \div 2)
    /\ nextId = 4

(***************************************************************************)
(* SpecPartial: with merging off, one command of any of the three kinds    *)
(* asking for 1..MaxCount+1 copies, on documents that hold fewer, as many  *)
(* or more copies, and AddCard commands for a zone the Document refuses;   *)
(* undo() and redo().                                                      *)
(***************************************************************************)
\* commands executeCommand accepts in one behaviour of SpecPartial
MaxPartialCmds == 1

PartialInputs ==
    UnitInputs
    \cup CardCommands({"AddCard"}, {1}, {CardX}, {"main", NoSuchZone}, {"side"},
                      1..(MaxCount + 1))

NextPartial ==
    \/ \E c \in PartialInputs : ExecuteCommand(c, TRUE) /\ Accepted(MaxPartialCmds)
    \/ Undo(TRUE)
    \/ Redo(TRUE)

SpecPartial == InitUnits /\ [][NextPartial]_vars

\* the units of an executed command that succeeded: the records it holds with
\* a valid Document handle
Succeeded(c) == Cardinality({i \in 1..Len(c.recs) : indexIsValid(c.recs[i].index)})

\* C30 (as stated): executeCommand on a modifying AddCard, RemoveCard or
\* SwapCard command returns true, and the command is on the undo stack, if and
\* only if at least one unit succeeded (the Document changed); when no unit
\* succeeded (an AddCard whose every copy the Document refused included) it
\* returns false and pushes nothing; and undo() changes the number of copies
\* in the command's zone by exactly the number of units that succeeded.
C30_PartialSuccess ==
    /\ [][ (Called("executeCommand") /\ ret'.branch \in {"push", "fail"})
              => /\ ret'.result <=> deck' # deck
                 /\ ret'.result => Succeeded(Top(undoStack')) > 0
                 /\ ~ret'.result => undoStack' = undoStack ]_vars
    /\ [][ (ret'.op = "undo" /\ canUndo)
              => LET c == Top(undoStack)
                     sign == IF c.kind = "AddCard" THEN -1 ELSE 1
                 IN /\ ret'.result
                    /\ IF c.zone \in Zones
                       THEN copies(deck'[1], c.zone, c.card.name)
                               = copies(deck[1], c.zone, c.card.name) + sign * Succeeded(c)
                       ELSE deck' = deck /\ Succeeded(c) = 0 ]_vars

(***************************************************************************)
(* SpecCommand: a caller constructs a command and calls its execute() and  *)
(* undo() itself, without the manager.  ret holds the last call and, as    *)
(* arg, the command object after it.                                       *)
(***************************************************************************)
\* most undo records a command may hold when execute() is called on it
MaxRecs == 4

\* commands a caller constructs in one behaviour of SpecCommand
MaxDirectCmds == 1

InitCommand == InitWith(UnitDocs, {DefaultMaxHistorySize})

CommandInputs ==
    CardCommands(Kinds, {1}, {CardX}, {"main"}, {"side"}, 1..MaxCount)

\* the caller constructs a command
Construct(c) ==
    /\ nextId <= MaxDirectCmds
    /\ nextId' = nextId + 1
    /\ ret' = ReturnedFor("construct", TRUE, "done", [c EXCEPT !.id = nextId])
    /\ UNCHANGED <<deck, initDeck, undoStack, redoStack, maxHistorySize, mergingEnabled,
                   cleanupPending, cleanupDue, clock, emitted>>

\* the caller calls execute() on the command it holds
CommandExecute ==
    /\ ret.arg # NullCommand
    /\ Len(ret.arg.recs) <= MaxRecs
    /\ \E r \in {execute(ret.arg, deck[ret.arg.deck], TRUE)} :
          /\ deck' = [deck EXCEPT ![ret.arg.deck] = r.m]
          /\ ret' = ReturnedFor("execute", r.ok, "done", r.cmd)
    /\ UNCHANGED <<initDeck, undoStack, redoStack, maxHistorySize, mergingEnabled,
                   cleanupPending, cleanupDue, clock, nextId, emitted>>

\* the caller calls undo() on the command it holds
CommandUndo ==
    /\ ret.arg # NullCommand
    /\ \E r \in {undoCommand(ret.arg, deck[ret.arg.deck], TRUE)} :
          /\ deck' = [deck EXCEPT ![ret.arg.deck] = r.m]
          /\ ret' = ReturnedFor("undoCommand", r.ok, "done", r.cmd)
    /\ UNCHANGED <<initDeck, undoStack, redoStack, maxHistorySize, mergingEnabled,
                   cleanupPending, cleanupDue, clock, nextId, emitted>>

NextCommand ==
    \/ \E c \in CommandInputs : Construct(c)
    \/ CommandExecute
    \/ CommandUndo

SpecCommand == InitCommand /\ [][NextCommand]_vars

\* C31 (as stated): an execute() called on a command right after an execute()
\* on the same command, with no undo() in between, leaves the Document (every
\* count) and the command's undo records as the first call left them.
C31_ExecuteIdempotent ==
    [][ (ret.op = "execute" /\ ret'.op = "execute")
            => /\ Counts(deck') = Counts(deck)
               /\ ret'.arg.recs = ret.arg.recs ]_vars


(***************************************************************************)
(* SpecSwap: SwapCard commands only, between the three zones of document   *)
(* 1, through executeCommand, undo and redo, with merging switched on and  *)
(* off.  Time stands still, so two equal swaps in a row can merge.         *)
(***************************************************************************)
\* bound: commands accepted by executeCommand in SpecSwap
MaxSwapCmds == 2

SwapDocs ==
    {DocWith(RowsOf(CardX, a), RowsOf(CardX, b)) : a \in 1..MaxCopies, b \in 0..1}

InitSwap == InitWith(SwapDocs, {DefaultMaxHistorySize})

SwapInputs ==
    {c \in CardCommands({"SwapCard"}, {1}, {CardX}, {"main", "side"},
                        {"main", "side", "tokens"}, 1..MaxCount) : c.zone # c.toZone}

NextSwap ==
    \/ \E c \in SwapInputs : ExecuteCommand(c, TRUE) /\ Accepted(MaxSwapCmds)
    \/ Undo(TRUE)
    \/ Redo(TRUE)
    \/ \E b \in BOOLEAN : SetMergingEnabled(b)

SpecSwap == InitSwap /\ [][NextSwap]_vars

\* the copies of the card called name in all zones of the Document m
RECURSIVE totalOver(_, _, _)
totalOver(m, name, zones) ==
    IF zones = {} THEN 0
    ELSE LET z == CHOOSE x \in zones : TRUE
         IN copies(m, z, name) + totalOver(m, name, zones \ {z})

total(m, name) == totalOver(m, name, DOMAIN m)

\* C34: under SwapCard commands run through the manager, with merging enabled
\* or disabled, the copies of each card summed over all zones of the Document
\* stay what they were initially, in every state between manager calls.
C34_SwapConservation ==
    \A d \in Docs : \A card \in AllCards :
        total(deck[d], card.name) = total(initDeck[d], card.name)


(***************************************************************************)
(* SpecNoMerge: the manager after setMergingEnabled(false), with the       *)
(* default history size, on a Document holding one printing each of X and  *)
(* Y, driven by executeCommand, undo and redo.                             *)
(***************************************************************************)
\* bound: commands accepted by executeCommand in SpecNoMerge
MaxNoMergeCmds == 2

NoMergeDocs == {EmptyDoc, DocWith(<<Row(CardX, 1), Row(CardY, 1)>>, <<>>)}

InitNoMerge ==
    /\ deck \in {[d \in Docs |-> IF d = 1 THEN m ELSE EmptyDoc] : m \in NoMergeDocs}
    /\ initDeck = deck
    /\ undoStack = <<>>
    /\ redoStack = <<>>
    /\ maxHistorySize = DefaultMaxHistorySize
    /\ mergingEnabled = FALSE
    /\ cleanupPending = FALSE
    /\ cleanupDue = 0
    /\ clock = 0
    /\ nextId = 1
    /\ ret = Returned("setMergingEnabled", TRUE, "done")
    /\ emitted = <<>>

NoMergeInputs ==
    CardCommands(Kinds, {1}, {CardX, CardY}, {"main"}, {"side"}, 1..MaxCount)

NextNoMerge ==
    \/ \E c \in NoMergeInputs : ExecuteCommand(c, TRUE) /\ Accepted(MaxNoMergeCmds)
    \/ Undo(TRUE)
    \/ Redo(TRUE)

SpecNoMerge == InitNoMerge /\ [][NextNoMerge]_vars

\* C35: with merging disabled, unlimited history and one printing per card
\* name, after any sequence of executeCommand, undo and redo calls, once
\* undo() has been called until canUndo() is false every (card, zone) count
\* of the Document equals its initial value.
C35_RoundTripNoMerge ==
    (~canUndo /\ ret.op = "undo") => Counts(deck) = Counts(initDeck)

====
